---- MODULE Spec2Model ----
(***************************************************************************)
(* A model of fifa_dashboard.py: one Streamlit page run over the read-only *)
(* table `players`.  Text values are sequences of characters, numbers are  *)
(* integers, SQL ROUND(x, d) values are kept as integers in units of       *)
(* 10^-d.  A row is identified by its rowid, its index in `players`.       *)
(***************************************************************************)
EXTENDS Integers, Sequences, FiniteSets, TLC

VARIABLES
  players,  \* the table: a sequence of rows, never written
  sel,      \* the widget values of the session
  pc,       \* the rendering unit the script run is at
  shown,    \* what each rendering unit has put on the page in this run
  xi,       \* the Best XI query results held until the tab renders
  faults,   \* load_data calls that raised in this run
  reruns,   \* widget changes made so far
  ti,       \* club figures fed to TalentIndex and its value
  cache,    \* st.cache_data of load_data: query text |-> result and time of entry
  now,      \* the clock, in seconds
  order     \* the order in which the store returns rows of equal ORDER BY keys

vars == <<players, sel, pc, shown, xi, faults, reruns, ti, cache, now, order>>

(***************************************************************************)
(* Text literals of the source.                                            *)
(***************************************************************************)
All        == <<"A", "l", "l">>
Hoffenheim == <<"H", "o", "f", "f", "e", "n", "h", "e", "i", "m">>
Empty      == <<>>
GK  == <<"G", "K">>
LB  == <<"L", "B">>
LWB == <<"L", "W", "B">>
CB  == <<"C", "B">>
RB  == <<"R", "B">>
RWB == <<"R", "W", "B">>
CM  == <<"C", "M">>
CDM == <<"C", "D", "M">>
CAM == <<"C", "A", "M">>
LW  == <<"L", "W">>
LM  == <<"L", "M">>
ST  == <<"S", "T">>
CF  == <<"C", "F">>
RW  == <<"R", "W">>
RM  == <<"R", "M">>

Null == "NULL"

Row(name, age, nat, ov, pot, club, pos) ==
  [Name |-> name, Age |-> age, Nationality |-> nat, Overall |-> ov,
   Potential |-> pot, Club |-> club, Position |-> pos]

Min(a, b) == IF a <= b THEN a ELSE b

RECURSIVE SumOver(_, _)
\* SUM of f over the finite set S
SumOver(f, S) ==
  IF S = {} THEN 0
  ELSE LET x == CHOOSE y \in S : TRUE IN f[x] + SumOver(f, S \ {x})

\* SQLite ROUND(num/den, d) for num, den >= 0, in units of 10^-d (scale = 10^d):
\* halves round away from zero.
RoundDiv(num, den, scale) == (2 * scale * num + den) \div (2 * den)

\* ROUND(AVG(col), d) over the rows S of T; NULL over no rows
AvgOf(T, S, col, scale) ==
  IF S = {} THEN Null
  ELSE RoundDiv(SumOver([i \in S |-> T[i][col]], S), Cardinality(S), scale)

(***************************************************************************)
(* ORDER BY key DESC.  SQL leaves the order of rows with equal keys to the *)
(* store; each execution of a query takes one of the two rowid orders.     *)
(***************************************************************************)
TieOrders == {"asc", "desc"}

TieBefore(tb, i, j) == IF tb = "asc" THEN i < j ELSE i > j

\* S in descending order of key[x]; equal keys in the order tb of tkey[x]
OrderDesc(S, key, tkey, tb) ==
  LET before(x, y) == \/ key[x] > key[y]
                      \/ key[x] = key[y] /\ TieBefore(tb, tkey[x], tkey[y])
      rank == [x \in S |-> Cardinality({y \in S : before(y, x)})]
  IN  [p \in 1..Cardinality(S) |-> CHOOSE x \in S : rank[x] = p - 1]

\* Limit with the OFFSET dropped
LimitNoOffset(s, k, off) == SubSeq(s, 1, Min(Len(s), k))

\* LIMIT k OFFSET off
Limit(s, k, off) == SubSeq(s, off + 1, Min(Len(s), off + k))

RowId(S) == [i \in S |-> i]

Range(s) == {s[p] : p \in DOMAIN s}

(***************************************************************************)
(* The sidebar filter.                                                     *)
(***************************************************************************)
RatingDefault == <<60, 100>>
AgeDefault    == <<18, 35>>

\* filter_clause with the lower rating bound excluded
filter_clause_excl(r, s) ==
  /\ s.min_rating < r.Overall /\ r.Overall <= s.max_rating
  /\ s.min_age <= r.Age /\ r.Age <= s.max_age
  /\ (s.selected_position # All => r.Position = s.selected_position)
  /\ (s.selected_club # All => r.Club = s.selected_club)

\* WHERE Overall BETWEEN .. AND .. AND Age BETWEEN .. AND .. [AND Position = ..] [AND Club = ..]
filter_clause(r, s) ==
  /\ s.min_rating <= r.Overall /\ r.Overall <= s.max_rating
  /\ s.min_age <= r.Age /\ r.Age <= s.max_age
  /\ (s.selected_position # All => r.Position = s.selected_position)
  /\ (s.selected_club # All => r.Club = s.selected_club)

Filtered(T, s) == {i \in DOMAIN T : filter_clause(T[i], s)}

\* SELECT COUNT(*) as count FROM players {filter_clause}
total_count(T, s) == Cardinality(Filtered(T, s))

\* SELECT ROUND(AVG(col), 1) ..., shown as 0 when NULL; in tenths
avg_val(T, s, col) ==
  IF Filtered(T, s) = {} THEN 0 ELSE AvgOf(T, Filtered(T, s), col, 10)

\* SELECT Name, Overall FROM players {filter_clause} ORDER BY Overall DESC LIMIT n
top_players(T, s, n, tb) ==
  LET S == Filtered(T, s)
  IN  Limit(OrderDesc(S, [i \in S |-> T[i].Overall], RowId(S), tb), n, 0)

\* SELECT COUNT(DISTINCT Club) as count FROM players {filter_clause}
clubs_count(T, s) == Cardinality({T[i].Club : i \in Filtered(T, s)})


(***************************************************************************)
(* Text order (ORDER BY on a text column, binary collation) and the        *)
(* sidebar options.                                                        *)
(***************************************************************************)
Upper == <<"A", "B", "C", "D", "E", "F", "G", "H", "I", "J", "K", "L", "M",
           "N", "O", "P", "Q", "R", "S", "T", "U", "V", "W", "X", "Y", "Z">>
Lower == <<"a", "b", "c", "d", "e", "f", "g", "h", "i", "j", "k", "l", "m",
           "n", "o", "p", "q", "r", "s", "t", "u", "v", "w", "x", "y", "z">>

\* the ASCII order of the characters the tables use
Ascii == <<"%", "'", "/">> \o Upper \o <<"_">> \o Lower

Code(c) == CHOOSE k \in DOMAIN Ascii : Ascii[k] = c

RECURSIVE TextLess(_, _)
TextLess(a, b) ==
  IF b = <<>> THEN FALSE
  ELSE IF a = <<>> THEN TRUE
  ELSE IF Head(a) # Head(b) THEN Code(Head(a)) < Code(Head(b))
  ELSE TextLess(Tail(a), Tail(b))

\* SELECT DISTINCT Position FROM players WHERE Position != '' ORDER BY Position
positions_df(T) == {T[i].Position : i \in DOMAIN T} \ {Empty}

\* clubs_df['Club'].head(50) of SELECT DISTINCT Club ... WHERE Club != '' ORDER BY Club
ClubHead == 50

clubs_df(T) ==
  LET cs == {T[i].Club : i \in DOMAIN T} \ {Empty}
  IN  {c \in cs : Cardinality({d \in cs : TextLess(d, c)}) < ClubHead}

(***************************************************************************)
(* Tab 1 and tab 2.                                                        *)
(***************************************************************************)
\* SELECT col, COUNT(*) as count ... GROUP BY col ORDER BY col   (col is a number)
dist(T, s, col) ==
  LET S    == Filtered(T, s)
      vals == {T[i][col] : i \in S}
      asc  == OrderDesc(vals, [v \in vals |-> 0 - v], [v \in vals |-> v], "asc")
  IN  [p \in DOMAIN asc |->
         [value |-> asc[p], count |-> Cardinality({i \in S : T[i][col] = asc[p]})]]

NationLimit == 15

\* grouped_count with ORDER BY count ascending
grouped_count_asc(T, S, col, tb) ==
  LET vals   == {T[i][col] : i \in S}
      mem(v) == {i \in S : T[i][col] = v}
      first == [v \in vals |-> CHOOSE i \in mem(v) : \A j \in mem(v) : i <= j]
      ord == Limit(OrderDesc(vals, [v \in vals |-> 0 - Cardinality(mem(v))], first, tb),
                   NationLimit, 0)
  IN  [p \in DOMAIN ord |->
         [value |-> ord[p], count |-> Cardinality(mem(ord[p])),
          avg_rating |-> AvgOf(T, mem(ord[p]), "Overall", 10)]]

\* SELECT col, COUNT(*) as count, ROUND(AVG(Overall), 1) as avg_rating
\* FROM players WHERE .. GROUP BY col ORDER BY count DESC LIMIT 15, over the rows S
grouped_count(T, S, col, tb) ==
  LET vals   == {T[i][col] : i \in S}
      mem(v) == {i \in S : T[i][col] = v}
      first == [v \in vals |-> CHOOSE i \in mem(v) : \A j \in mem(v) : i <= j]
      ord == Limit(OrderDesc(vals, [v \in vals |-> Cardinality(mem(v))], first, tb),
                   NationLimit, 0)
  IN  [p \in DOMAIN ord |->
         [value |-> ord[p], count |-> Cardinality(mem(ord[p])),
          avg_rating |-> AvgOf(T, mem(ord[p]), "Overall", 10)]]

nations(T, s, tb) == grouped_count(T, Filtered(T, s), "Nationality", tb)

\* ... {filter_clause} AND Club != 'Hoffenheim' AND Club != '' GROUP BY Club ...
clubs15(T, s, tb) ==
  grouped_count(T, {i \in Filtered(T, s) : T[i].Club # Hoffenheim /\ T[i].Club # Empty},
                "Club", tb)

TopLimit == 50

(***************************************************************************)
(* Tab 3: the Best XI.                                                     *)
(***************************************************************************)
Slots == <<"gk", "lb", "cb1", "cb2", "rb", "cm1", "cm2", "cm3", "lw", "striker", "rw">>

SlotPositions(s) ==
  CASE s = "gk"      -> {GK}
    [] s = "lb"      -> {LB, LWB}
    [] s = "cb1"     -> {CB}
    [] s = "cb2"     -> {CB}
    [] s = "rb"      -> {RB, RWB}
    [] s = "cm1"     -> {CM, CDM}
    [] s = "cm2"     -> {CM, CAM}
    [] s = "cm3"     -> {CM, CDM, CAM}
    [] s = "lw"      -> {LW, LM}
    [] s = "striker" -> {ST, CF}
    [] s = "rw"      -> {RW, RM}

\* SlotOffset with no OFFSET in any query
SlotOffsetNone(s) == 0

SlotOffset(s) == IF s \in {"cb2", "cm3"} THEN 1 ELSE 0

Candidates(T, s) == {i \in DOMAIN T : T[i].Position \in SlotPositions(s)}

\* SELECT Name, Overall, Club, Age FROM players WHERE Position IN (..)
\* ORDER BY Overall DESC LIMIT 1 [OFFSET 1]: the rowids of the result
slot_query(T, s, tb) ==
  LET S == Candidates(T, s)
  IN  Limit(OrderDesc(S, [i \in S |-> T[i].Overall], RowId(S), tb), 1, SlotOffset(s))

RECURSIVE Concat(_, _)
\* pd.concat([gk, lb, cb1, cb2, rb, cm1, cm2, cm3, lw, striker, rw])
Concat(x, k) == IF k = 0 THEN <<>> ELSE Concat(x, k - 1) \o x[Slots[k]]


(***************************************************************************)
(* Tab 4: club analysis.                                                   *)
(***************************************************************************)
MinPlayers      == 15
ClubLimit       == 30
YoungAge        == 23
WorldClassMin   == 80
ChartHead       == 20
MetricsHead     == 10
DepthHead       == 5
MinYoungPlayers == 5
YouthLimit      == 15
MinGrowth       == 15
GemMaxAge       == 24
GemLimit        == 20

\* pandas Series.round(2) of x thousandths, in hundredths: halves round to even.
\* (The source adds binary floats; the exact decimal sum is modelled.)
RoundHalfEven(x) ==
  LET q == x \div 10
      r == x % 10
  IN  IF r > 5 \/ (r = 5 /\ q % 2 = 1) THEN q + 1 ELSE q

\* TalentIndex with the WorldClass term subtracted
TalentIndexMinus(AvgRating, AvgPotential, YoungTalents, WorldClass) ==
  RoundHalfEven(4 * AvgRating + 3 * AvgPotential + 2000 * YoungTalents
                - 1500 * WorldClass)

\* AvgRating * 0.4 + AvgPotential * 0.3 + YoungTalents * 2 + WorldClass * 1.5, rounded
\* to 2 decimals; AvgRating, AvgPotential and the result in hundredths
TalentIndex(AvgRating, AvgPotential, YoungTalents, WorldClass) ==
  RoundHalfEven(4 * AvgRating + 3 * AvgPotential + 2000 * YoungTalents
                + 1500 * WorldClass)

ClubRows(T) == {i \in DOMAIN T : T[i].Club # Empty /\ T[i].Club # Hoffenheim}

\* one row of the GROUP BY Club of club_talent
ClubSummary(T, c) ==
  LET m == {i \in ClubRows(T) : T[i].Club = c}
      y == {i \in m : T[i].Age <= YoungAge}
  IN  [Club |-> c,
       TotalPlayers |-> Cardinality(m),
       AvgRating    |-> AvgOf(T, m, "Overall", 100),
       BestPlayer   |-> CHOOSE v \in {T[i].Overall : i \in m} :
                          \A i \in m : T[i].Overall <= v,
       AvgPotential |-> AvgOf(T, m, "Potential", 100),
       YoungTalents |-> Cardinality(y),
       WorldClass   |-> Cardinality({i \in m : T[i].Overall >= WorldClassMin}),
       YouthPotential |-> RoundDiv(SumOver([i \in y |-> T[i].Potential], y),
                                   Cardinality(m), 100),
       first |-> CHOOSE i \in m : \A j \in m : i <= j]

\* Qualifies with the bound one too low
QualifiesOffByOne(g) == g.TotalPlayers >= MinPlayers - 1

\* HAVING TotalPlayers >= 15
Qualifies(g) == g.TotalPlayers >= MinPlayers

\* club_query with the clubs ordered by TalentIndex before LIMIT 30
club_query_by_index(T, tb) ==
  LET sums == {ClubSummary(T, c) : c \in {T[i].Club : i \in ClubRows(T)}}
      kept == {g \in sums : Qualifies(g)}
  IN  Limit(OrderDesc(kept,
                      [g \in kept |-> TalentIndex(g.AvgRating, g.AvgPotential,
                                                  g.YoungTalents, g.WorldClass)],
                      [g \in kept |-> g.first], tb),
            ClubLimit, 0)

\* the rows of the SQL query: GROUP BY Club HAVING .. ORDER BY AvgRating DESC LIMIT 30
club_query(T, tb) ==
  LET sums == {ClubSummary(T, c) : c \in {T[i].Club : i \in ClubRows(T)}}
      kept == {g \in sums : Qualifies(g)}
  IN  Limit(OrderDesc(kept, [g \in kept |-> g.AvgRating], [g \in kept |-> g.first], tb),
            ClubLimit, 0)

WithIndex(g) ==
  [Club |-> g.Club, TotalPlayers |-> g.TotalPlayers, AvgRating |-> g.AvgRating,
   BestPlayer |-> g.BestPlayer, AvgPotential |-> g.AvgPotential,
   YoungTalents |-> g.YoungTalents, WorldClass |-> g.WorldClass,
   YouthPotential |-> g.YouthPotential,
   TalentIndex |-> TalentIndex(g.AvgRating, g.AvgPotential, g.YoungTalents,
                               g.WorldClass)]

\* club_talent after the TalentIndex column is added and
\* sort_values('TalentIndex', ascending=False); q is the query's result, tb2 the
\* order sort_values leaves equal TalentIndex values in
club_talent(q, tb2) ==
  LET ord == OrderDesc(Range(q),
                       [g \in Range(q) |-> TalentIndex(g.AvgRating, g.AvgPotential,
                                                       g.YoungTalents, g.WorldClass)],
                       [g \in Range(q) |-> CHOOSE p \in DOMAIN q : q[p] = g], tb2)
  IN  [p \in DOMAIN ord |-> WithIndex(ord[p])]

HeadN(s, n) == SubSeq(s, 1, Min(Len(s), n))

\* club_talent.head(5)['Club'].tolist()
depth_clubs(ct) == [p \in DOMAIN HeadN(ct, DepthHead) |-> ct[p].Club]

\* SELECT Club, Position, COUNT(*) as Players, ROUND(AVG(Overall), 1) as AvgRating
\* FROM players WHERE Club IN (..) GROUP BY Club, Position   (no ORDER BY: a set)
depth_data(T, dc) ==
  LET S == {i \in DOMAIN T : T[i].Club \in Range(dc)}
      m(c, p) == {i \in S : T[i].Club = c /\ T[i].Position = p}
  IN  {[Club |-> T[i].Club, Position |-> T[i].Position,
        Players |-> Cardinality(m(T[i].Club, T[i].Position)),
        AvgRating |-> AvgOf(T, m(T[i].Club, T[i].Position), "Overall", 10)] : i \in S}

\* youth_clubs: WHERE Age <= 23 AND Club != '' AND Club != 'Hoffenheim' GROUP BY Club
\* HAVING YoungPlayers >= 5 ORDER BY AvgPotential DESC LIMIT 15
youth_clubs(T, tb) ==
  LET S == {i \in ClubRows(T) : T[i].Age <= YoungAge}
      m(c) == {i \in S : T[i].Club = c}
      cs == {c \in {T[i].Club : i \in S} : Cardinality(m(c)) >= MinYoungPlayers}
      ord == Limit(OrderDesc(cs, [c \in cs |-> AvgOf(T, m(c), "Potential", 10)],
                             [c \in cs |-> CHOOSE i \in m(c) : \A j \in m(c) : i <= j], tb),
                   YouthLimit, 0)
  IN  [p \in DOMAIN ord |->
         [Club |-> ord[p], YoungPlayers |-> Cardinality(m(ord[p])),
          AvgRating |-> AvgOf(T, m(ord[p]), "Overall", 10),
          AvgPotential |-> AvgOf(T, m(ord[p]), "Potential", 10),
          BestPotential |-> CHOOSE v \in {T[i].Potential : i \in m(ord[p])} :
                              \A i \in m(ord[p]) : T[i].Potential <= v]]

Growth(r) == r.Potential - r.Overall

\* GemWhere with the age bound one year too high
GemWhereOlder(r) == Growth(r) >= MinGrowth /\ r.Age <= GemMaxAge + 1

\* WHERE (Potential - Overall) >= 15 AND Age <= 24
GemWhere(r) == Growth(r) >= MinGrowth /\ r.Age <= GemMaxAge

\* SELECT .., (Potential - Overall) as Growth FROM players WHERE ..
\* ORDER BY Growth DESC LIMIT 20: the rowids of the result
gems(T, tb) ==
  LET S == {i \in DOMAIN T : GemWhere(T[i])}
  IN  Limit(OrderDesc(S, [i \in S |-> Growth(T[i])], RowId(S), tb), GemLimit, 0)

(***************************************************************************)
(* Skill analysis, position comparison, search and position deep dive.     *)
(***************************************************************************)
SkillLimit  == 100
SearchLimit == 100
DeepLimit   == 30

\* ... {filter_clause} AND Position != 'GK' ORDER BY Overall DESC LIMIT 100
skills(T, s, tb) ==
  LET S == {i \in Filtered(T, s) : T[i].Position # GK}
  IN  Limit(OrderDesc(S, [i \in S |-> T[i].Overall], RowId(S), tb), SkillLimit, 0)

\* SELECT * FROM position_stats ORDER BY AvgRating DESC: the view is taken to hold
\* one row (Position, PlayerCount, AvgRating) per position of players
position_stats(T, tb) ==
  LET m(p) == {i \in DOMAIN T : T[i].Position = p}
      ps == {T[i].Position : i \in DOMAIN T}
      ord == OrderDesc(ps, [p \in ps |-> AvgOf(T, m(p), "Overall", 100)],
                       [p \in ps |-> CHOOSE i \in m(p) : \A j \in m(p) : i <= j], tb)
  IN  [k \in DOMAIN ord |->
         [Position |-> ord[k], PlayerCount |-> Cardinality(m(ord[k])),
          AvgRating |-> AvgOf(T, m(ord[k]), "Overall", 100)]]

\* SQLite's LIKE folds the case of ASCII letters
Fold(c) == IF \E k \in DOMAIN Upper : Upper[k] = c
           THEN Lower[CHOOSE k \in DOMAIN Upper : Upper[k] = c]
           ELSE c

RECURSIVE Like(_, _)
\* text LIKE pattern: % matches any run of characters, _ any one character
Like(pat, text) ==
  IF pat = <<>> THEN text = <<>>
  ELSE IF Head(pat) = "%"
       THEN Like(Tail(pat), text) \/ (text # <<>> /\ Like(pat, Tail(text)))
  ELSE /\ text # <<>>
       /\ (Head(pat) = "_" \/ Fold(Head(pat)) = Fold(Head(text)))
       /\ Like(Tail(pat), Tail(text))

\* WHERE {search_column} LIKE '%{search_term}%'
SearchWhere(r, col, term) == Like(<<"%">> \o term \o <<"%">>, r[col])

\* ... WHERE {search_column} LIKE '%{search_term}%' ORDER BY Overall DESC LIMIT 100
results(T, col, term, tb) ==
  LET S == {i \in DOMAIN T : SearchWhere(T[i], col, term)}
  IN  Limit(OrderDesc(S, [i \in S |-> T[i].Overall], RowId(S), tb), SearchLimit, 0)

\* ... WHERE Position = '{selected_pos}' ORDER BY Overall DESC LIMIT 30
pos_players(T, pos, tb) ==
  LET S == {i \in DOMAIN T : T[i].Position = pos}
  IN  Limit(OrderDesc(S, [i \in S |-> T[i].Overall], RowId(S), tb), DeepLimit, 0)


(***************************************************************************)
(* The page run.  Each rendering unit is one step, in script order; a      *)
(* load_data call may raise (store unavailable, malformed query text).     *)
(***************************************************************************)
MaxFaults == 1
MaxReruns == 1

Units ==
  <<"options", "total", "avg_rating", "avg_age", "top_player", "clubs",
    "rating_dist", "nations", "age_dist", "clubs15", "top_players">>
  \o Slots \o
  <<"best_xi", "club_talent", "youth_clubs", "gems", "depth",
    "skills", "physical", "position_comparison", "results", "pos_players", "done">>

Panels == Range(Units) \ (Range(Slots) \cup {"done"})

KpiUnits  == {"total", "avg_rating", "avg_age", "top_player", "clubs"}
Tab3Units == Range(Slots) \cup {"best_xi"}
Tab4Try   == {"club_talent", "youth_clubs", "gems", "depth"}

After(u) == Units[(CHOOSE k \in DOMAIN Units : Units[k] = u) + 1]

\* where the script continues when load_data raises in unit u: after the enclosing
\* try block, or nowhere (Streamlit stops the run on an uncaught exception)
Handler(u) ==
  CASE u \in KpiUnits  -> "rating_dist"
    [] u \in Tab3Units -> "club_talent"
    [] u \in Tab4Try   -> "skills"
    [] OTHER           -> "aborted"

NotRun      == [k |-> "none"]
Failed      == [k |-> "error"]
Placeholder == [k |-> "placeholder"]
Metric(v)   == [k |-> "metric", v |-> v]
Chart(rows) == [k |-> "chart", rows |-> rows]
Table(rows) == [k |-> "table", rows |-> rows]

NA       == <<"N", "/", "A">>
NoneText == <<"N", "o", "n", "e">>

NoXI == [s \in Range(Slots) |-> <<>>]

Advance(u, d) ==
  /\ pc = u
  /\ shown' = [shown EXCEPT ![u] = d]
  /\ pc' = After(u)
  /\ UNCHANGED <<players, sel, xi, faults, reruns, ti, cache, now, order>>

\* load_data raises in unit u; the error surfaces in panel p
Raise(u, p) ==
  /\ pc = u
  /\ faults < MaxFaults
  /\ faults' = faults + 1
  /\ shown' = [shown EXCEPT ![p] = Failed]
  /\ pc' = Handler(u)
  /\ UNCHANGED <<players, sel, xi, reruns, ti, cache, now, order>>

Options ==
  \/ Advance("options", [k |-> "sidebar", positions |-> positions_df(players),
                         clubs |-> clubs_df(players)])
  \/ Raise("options", "options")

KpiTotal ==
  \/ Advance("total", Metric(total_count(players, sel)))
  \/ Raise("total", "total")

KpiAvgRating ==
  \/ Advance("avg_rating", Metric(avg_val(players, sel, "Overall")))
  \/ Raise("avg_rating", "avg_rating")

KpiAvgAge ==
  \/ Advance("avg_age", Metric(avg_val(players, sel, "Age")))
  \/ Raise("avg_age", "avg_age")

KpiTopPlayer ==
  \/ \E tb \in TieOrders :
       LET top_player == top_players(players, sel, 1, tb)
       IN  Advance("top_player",
                   IF top_player # <<>>
                   THEN [k |-> "metric", v |-> players[top_player[1]].Name,
                         delta |-> players[top_player[1]].Overall]
                   ELSE [k |-> "metric", v |-> NA, delta |-> 0])
  \/ Raise("top_player", "top_player")

KpiClubs ==
  \/ Advance("clubs", Metric(clubs_count(players, sel)))
  \/ Raise("clubs", "clubs")

RatingDist ==
  \/ Advance("rating_dist", Chart(dist(players, sel, "Overall")))
  \/ Raise("rating_dist", "rating_dist")

Nations ==
  \/ \E tb \in TieOrders : Advance("nations", Chart(nations(players, sel, tb)))
  \/ Raise("nations", "nations")

AgeDist ==
  \/ Advance("age_dist", Chart(dist(players, sel, "Age")))
  \/ Raise("age_dist", "age_dist")

Clubs15 ==
  \/ \E tb \in TieOrders : Advance("clubs15", Chart(clubs15(players, sel, tb)))
  \/ Raise("clubs15", "clubs15")

TopPlayers ==
  \/ \E tb \in TieOrders :
       Advance("top_players", Table(top_players(players, sel, TopLimit, tb)))
  \/ Raise("top_players", "top_players")

\* The orders of equal-Overall rows in which the statement of slot s can return its
\* rows once the statements before it have returned x.  The statements of cb1 and
\* cb2 (lines 207, 208) have the same FROM, WHERE and ORDER BY and differ in OFFSET
\* alone: the store orders the same unchanged rows for both, and OFFSET only picks
\* from that order.  Every other statement has a WHERE clause of its own.
SlotOrders(T, s, x) ==
  IF s = "cb2" THEN {tb \in TieOrders : slot_query(T, "cb1", tb) = x["cb1"]}
  ELSE TieOrders

\* one of the eleven load_data calls of tab 3
SlotQuery ==
  \/ \E s \in Range(Slots) :
       /\ pc = s
       /\ \E tb \in SlotOrders(players, s, xi) :
            xi' = [xi EXCEPT ![s] = slot_query(players, s, tb)]
       /\ pc' = After(s)
       /\ UNCHANGED <<players, sel, shown, faults, reruns, ti, cache, now, order>>
  \/ \E s \in Range(Slots) : Raise(s, "best_xi")

\* the rendering of tab 3: the st.info/success/warning/error boxes of the non-empty
\* slots and the team statistics over all_players
BestXI ==
  LET all_players == Concat(xi, Len(Slots))
  IN  Advance("best_xi",
              [k |-> "xi", slots |-> xi, all_players |-> all_players,
               unique_clubs |-> Cardinality({players[all_players[p]].Club :
                                               p \in DOMAIN all_players})])

ClubTalent ==
  \/ \E tb \in TieOrders, tb2 \in TieOrders :
       LET q == club_query(players, tb)
       IN  Advance("club_talent",
                   IF q # <<>>
                   THEN LET ct == club_talent(q, tb2)
                        IN  [k |-> "ranking", rows |-> ct,
                             chart |-> HeadN(ct, ChartHead),
                             top_club |-> HeadN(ct, MetricsHead)]
                   ELSE Placeholder)
  \/ Raise("club_talent", "club_talent")

YouthClubs ==
  \/ \E tb \in TieOrders :
       LET y == youth_clubs(players, tb)
       IN  Advance("youth_clubs", IF y # <<>> THEN Chart(y) ELSE Placeholder)
  \/ Raise("youth_clubs", "youth_clubs")

Gems ==
  \/ \E tb \in TieOrders :
       LET g == gems(players, tb)
       IN  Advance("gems", IF g # <<>> THEN Table(g) ELSE Placeholder)
  \/ Raise("gems", "gems")

Depth ==
  \/ /\ shown["club_talent"].k = "ranking"
     /\ LET dc == depth_clubs(shown["club_talent"].rows)
        IN  Advance("depth", [k |-> "bars", depth_clubs |-> dc,
                              groups |-> depth_data(players, dc)])
  \/ /\ shown["club_talent"].k = "ranking"
     /\ Raise("depth", "depth")
  \/ /\ shown["club_talent"].k # "ranking"
     /\ Advance("depth", NotRun)

Skills ==
  \/ \E tb \in TieOrders : Advance("skills", Chart(skills(players, sel, tb)))
  \/ Raise("skills", "skills")

Physical ==
  \/ \E tb \in TieOrders :
       Advance("physical", Chart(top_players(players, sel, SkillLimit, tb)))
  \/ Raise("physical", "physical")

PositionComparison ==
  \/ \E tb \in TieOrders :
       Advance("position_comparison", Chart(position_stats(players, tb)))
  \/ Raise("position_comparison", "position_comparison")

Search ==
  \/ /\ sel.search_term # Empty
     /\ \E tb \in TieOrders :
          LET r == results(players, sel.search_type, sel.search_term, tb)
          IN  Advance("results", IF Len(r) > 0 THEN Table(r) ELSE Placeholder)
  \/ /\ sel.search_term # Empty
     /\ Raise("results", "results")
  \/ /\ sel.search_term = Empty
     /\ Advance("results", NotRun)

PosDeepDive ==
  \/ \E tb \in TieOrders :
       Advance("pos_players", Table(pos_players(players, sel.selected_pos, tb)))
  \/ Raise("pos_players", "pos_players")


(***************************************************************************)
(* Widget changes: each one starts a new run of the script.                *)
(***************************************************************************)
RatingChoices == {RatingDefault, <<59, 80>>}
AgeChoices    == {AgeDefault, <<17, 36>>}
Terms         == {<<"a">>}
SearchTypes   == {"Name", "Club", "Nationality"}
\* the search types a rerun switches to; the search itself is run under all three
TypeChoices   == {"Name", "Club"}

\* the first option of st.selectbox("Select Position:", ..), None without options
FirstPosition(T) ==
  IF positions_df(T) = {} THEN NoneText
  ELSE CHOOSE p \in positions_df(T) : \A q \in positions_df(T) : ~TextLess(q, p)

DefaultSel(T) ==
  [selected_position |-> All, selected_club |-> All,
   min_rating |-> RatingDefault[1], max_rating |-> RatingDefault[2],
   min_age |-> AgeDefault[1], max_age |-> AgeDefault[2],
   search_term |-> Empty, search_type |-> "Name",
   selected_pos |-> FirstPosition(T)]

Blank == [u \in Panels |-> NotRun]

Rerun(s) ==
  /\ s # sel
  /\ reruns < MaxReruns
  /\ reruns' = reruns + 1
  /\ sel' = s
  /\ pc' = "options"
  /\ shown' = Blank
  /\ xi' = NoXI
  /\ faults' = 0
  /\ UNCHANGED <<players, ti, cache, now, order>>

\* the sidebar widgets exist once lines 45-66 have run
SidebarShown == pc \in {"done", "aborted"} /\ shown["options"].k = "sidebar"

PositionChange ==
  /\ SidebarShown
  /\ \E p \in {All} \cup shown["options"].positions :
       Rerun([sel EXCEPT !.selected_position = p])

ClubChange ==
  /\ SidebarShown
  /\ \E c \in {All} \cup shown["options"].clubs : Rerun([sel EXCEPT !.selected_club = c])

RatingChange ==
  /\ SidebarShown
  /\ \E r \in RatingChoices : Rerun([sel EXCEPT !.min_rating = r[1], !.max_rating = r[2]])

AgeChange ==
  /\ SidebarShown
  /\ \E a \in AgeChoices : Rerun([sel EXCEPT !.min_age = a[1], !.max_age = a[2]])

SidebarChange == PositionChange \/ ClubChange \/ RatingChange \/ AgeChange

SearchTermChange ==
  /\ pc = "done"
  /\ \E t \in Terms : Rerun([sel EXCEPT !.search_term = t])

SearchTypeChange ==
  /\ pc = "done"
  /\ \E t \in TypeChoices : Rerun([sel EXCEPT !.search_type = t])

DeepDiveChange ==
  /\ pc = "done"
  /\ \E p \in shown["options"].positions : Rerun([sel EXCEPT !.selected_pos = p])

SearchChange == SearchTermChange \/ SearchTypeChange \/ DeepDiveChange

PageRun ==
  \/ Options \/ KpiTotal \/ KpiAvgRating \/ KpiAvgAge \/ KpiTopPlayer \/ KpiClubs
  \/ RatingDist \/ Nations \/ AgeDist \/ Clubs15 \/ TopPlayers
  \/ SlotQuery \/ BestXI
  \/ ClubTalent \/ YouthClubs \/ Gems \/ Depth
  \/ Skills \/ Physical \/ PositionComparison \/ Search \/ PosDeepDive

(***************************************************************************)
(* Tables.                                                                 *)
(***************************************************************************)
MaxRows == 2

ClubA == <<"A">>
ClubB == <<"B">>
NatX  == <<"X">>
NatY  == <<"Y">>

\* rows on and next to the bounds of the sliders
FilterRows ==
  << Row(<<"a">>, 18, NatX, 60, 70, ClubA, ST),
     Row(<<"b">>, 18, NatX, 59, 80, ClubA, ST),
     Row(<<"c">>, 35, NatY, 100, 100, ClubB, GK),
     Row(<<"d">>, 36, NatY, 80, 80, ClubA, GK),
     Row(<<"e">>, 17, NatX, 80, 95, ClubB, ST),
     Row(<<"f">>, 25, NatY, 80, 82, Empty, CB) >>

\* the rows of R picked by the index set I, in the order of R
Pick(R, I) ==
  [p \in 1..Cardinality(I) |->
     R[CHOOSE i \in I : Cardinality({j \in I : j < i}) = p - 1]]

FilterTables ==
  {Pick(FilterRows, I) : I \in {J \in SUBSET DOMAIN FilterRows : Cardinality(J) <= MaxRows}}

\* n rows of club c; the k-th has rating ov + step * (k - 1)
Block(c, n, ov, step, pot, age) ==
  [k \in 1..n |-> Row(<<Lower[k]>>, age, NatX, ov + step * (k - 1), pot, c,
                      IF k = 1 THEN GK ELSE ST)]

ClubName(k) == <<Upper[((k - 1) \div 26) + 1], Lower[((k - 1) % 26) + 1]>>

RECURSIVE Background(_)
\* n clubs of MinPlayers players each, rated 70 with potential 75, aged 25
Background(n) ==
  IF n = 0 THEN <<>>
  ELSE Background(n - 1) \o Block(ClubName(n), MinPlayers, 70, 0, 75, 25)

Sizes == {MinPlayers - 1, MinPlayers, MinPlayers + 1}

\* a club of established players and a club of young players with room to grow
Profiles == {[ov |-> 85, pot |-> 86, age |-> 30], [ov |-> 65, pot |-> 85, age |-> 20]}

ClubX == <<"X">>
ClubY == <<"Y">>

\* none or ClubLimit - 1 background clubs, two clubs of 14 to 16 players, a
\* Hoffenheim squad and a player without a club
ClubTables ==
  {Background(nb)
     \o Block(ClubX, nx, px.ov, 0, px.pot, px.age)
     \o Block(ClubY, ny, py.ov, 0, py.pot, py.age)
     \o Block(Hoffenheim, MinPlayers, 90, 0, 90, 22)
     \o Block(Empty, 1, 90, 0, 90, 22) :
     nb \in {0, ClubLimit - 1}, nx \in Sizes, ny \in Sizes,
     px \in Profiles, py \in Profiles}

\* rows on and next to the bounds of the Hidden Gems query
GemRows ==
  << Row(<<"a">>, GemMaxAge, NatX, 60, 60 + MinGrowth, ClubA, ST),
     Row(<<"b">>, GemMaxAge + 1, NatX, 60, 60 + MinGrowth, ClubA, ST),
     Row(<<"c">>, GemMaxAge, NatY, 60, 60 + MinGrowth - 1, ClubB, GK),
     Row(<<"d">>, GemMaxAge - 1, NatY, 50, 50 + MinGrowth + 1, ClubB, GK),
     Row(<<"e">>, GemMaxAge + 1, NatY, 50, 50 + MinGrowth + 1, ClubB, CB) >>

GemTables ==
  {Pick(GemRows, I) : I \in {J \in SUBSET DOMAIN GemRows : Cardinality(J) <= MaxRows + 1}}

\* one squad of MinPlayers players with distinct ratings, and one more player
SquadTable ==
  Block(ClubA, MinPlayers, 61, 1, 90, 21) \o Block(ClubB, 1, 80, 0, 80, 30)

\* st.cache_data before the first load_data call
NoCache == <<>>

NoTI == [AvgRating |-> 0, AvgPotential |-> 0, YoungTalents |-> 0, WorldClass |-> 0,
         TalentIndex |-> 0, raised |-> "none", before |-> 0]

\* the session before its first script run, over a store that returns rows of equal
\* keys in the order o
Begin(T, s, u, o) ==
  /\ players = T
  /\ sel = s
  /\ pc = u
  /\ shown = Blank
  /\ xi = NoXI
  /\ faults = 0
  /\ reruns = 0
  /\ ti = NoTI
  /\ cache = NoCache
  /\ now = 0
  /\ order = o

\* `order` is read by the cached units alone (CacheHit, CacheMiss below); every other
\* unit takes either order at each execution, whatever `order` is.
StartWith(T, s, u) == Begin(T, s, u, "asc")

Start(T, u) == StartWith(T, DefaultSel(T), u)

Init == \E T \in FilterTables \cup {SquadTable} : Start(T, "options")

Next == PageRun \/ SidebarChange \/ SearchChange

Spec == Init /\ [][Next]_vars


(***************************************************************************)
(* The club analysis block of tab 4 (lines 287-419) on its own: it reads   *)
(* nothing but `players`.                                                  *)
(***************************************************************************)
InitClub == \E T \in ClubTables \cup GemTables : Start(T, "club_talent")

NextClub == ClubTalent \/ YouthClubs \/ Gems \/ Depth

SpecClub == InitClub /\ [][NextClub]_vars


(***************************************************************************)
(* Tab 3 (lines 199-282) on its own: it reads nothing but `players`.       *)
(***************************************************************************)
XIRows ==
  << Row(<<"a">>, 30, NatX, 80, 80, ClubA, CB),
     Row(<<"b">>, 31, NatX, 80, 80, ClubB, CB),
     Row(<<"c">>, 22, NatY, 70, 80, ClubA, CB),
     Row(<<"d">>, 27, NatX, 88, 88, ClubA, CM),
     Row(<<"e">>, 28, NatY, 90, 90, ClubB, CDM),
     Row(<<"f">>, 25, NatY, 85, 87, ClubB, CAM),
     Row(<<"g">>, 33, NatX, 91, 91, ClubA, ST),
     Row(<<"h">>, 24, NatY, 85, 89, ClubB, CF) >>

XITables ==
  {Pick(XIRows, I) : I \in {J \in SUBSET DOMAIN XIRows : Cardinality(J) <= MaxRows + 1}}

InitXI == \E T \in XITables : Start(T, "gk")

NextXI == SlotQuery \/ BestXI

SpecXI == InitXI /\ [][NextXI]_vars

(***************************************************************************)
(* The Top 15 Nationalities unit (lines 131-146) on its own.               *)
(***************************************************************************)
NatName(k) == <<Upper[k]>>

\* n players of nationality k rated 70, and `low` more rated 59
NatBlock(k, n, low) ==
  [j \in 1..(n + low) |->
     Row(<<Lower[j]>>, 25, NatName(k), IF j <= n THEN 70 ELSE 59, 75, ClubA, ST)]

RECURSIVE NatBase(_)
\* nationalities 1..n with two players each
NatBase(n) == IF n = 0 THEN <<>> ELSE NatBase(n - 1) \o NatBlock(n, 2, 0)

MaxPerNation == 3

\* NationLimit - 1 nationalities of two players and three more of 0..MaxPerNation
\* players, the first of which also has a player rated 59
NationTables ==
  {NatBase(NationLimit - 1)
     \o NatBlock(NationLimit, a, 1)
     \o NatBlock(NationLimit + 1, b, 0)
     \o NatBlock(NationLimit + 2, c, 0) :
     a \in 0..MaxPerNation, b \in 0..MaxPerNation, c \in 0..MaxPerNation}

NationSels(T) ==
  {DefaultSel(T), [DefaultSel(T) EXCEPT !.min_rating = 59, !.max_rating = 80]}

InitNations == \E T \in NationTables : \E s \in NationSels(T) : StartWith(T, s, "nations")

NextNations == Nations

SpecNations == InitNations /\ [][NextNations]_vars

(***************************************************************************)
(* The player search (lines 502-521) on its own.                           *)
(***************************************************************************)
SearchRows ==
  << Row(<<"R", "e", "a", "l">>, 30, <<"r", "e">>, 90, 90, <<"R", "e", "a", "l">>, ST),
     Row(<<"r", "e", "d">>, 25, <<"A", "l">>, 80, 85, <<"A", "_", "b">>, CB),
     Row(<<"a", "x", "b">>, 20, <<"a">>, 80, 90, Empty, GK),
     Row(<<"E">>, 35, <<"%">>, 70, 70, <<"e", "x">>, CM) >>

SearchTables ==
  {Pick(SearchRows, I) : I \in {J \in SUBSET DOMAIN SearchRows : Cardinality(J) <= MaxRows}}

SearchTerms ==
  {Empty, <<"a">>, <<"R">>, <<"r", "e">>, <<"e", "a">>, <<"_">>, <<"%">>, <<"a", "_", "b">>}

InitSearch ==
  \E T \in SearchTables, t \in SearchTerms, c \in SearchTypes :
    StartWith(T, [DefaultSel(T) EXCEPT !.search_term = t, !.search_type = c], "results")

NextSearch == Search

SpecSearch == InitSearch /\ [][NextSearch]_vars


(***************************************************************************)
(* The TalentIndex formula (lines 309-314) on its own: the figures of a    *)
(* club, and one of them raised with the other three held fixed.           *)
(***************************************************************************)
MaxCount == 2

\* averages in hundredths around 65.00 and 70.00
AvgRatings    == 6500..6503
AvgPotentials == 7000..7003

\* `before` is the TalentIndex before the last raise
Figures(a, p, y, w, last, before) ==
  [AvgRating |-> a, AvgPotential |-> p, YoungTalents |-> y, WorldClass |-> w,
   TalentIndex |-> TalentIndex(a, p, y, w), raised |-> last, before |-> before]

InitTalent ==
  /\ \E a \in AvgRatings, p \in AvgPotentials, y \in 0..MaxCount, w \in 0..MaxCount :
       ti = Figures(a, p, y, w, "none", TalentIndex(a, p, y, w))
  /\ players = <<>>
  /\ sel = DefaultSel(<<>>)
  /\ pc = "club_talent"
  /\ shown = Blank
  /\ xi = NoXI
  /\ faults = 0
  /\ reruns = 0
  /\ cache = NoCache
  /\ now = 0
  /\ order = "asc"

RaiseAvgRating ==
  /\ \E a \in AvgRatings :
       /\ a > ti.AvgRating
       /\ ti' = Figures(a, ti.AvgPotential, ti.YoungTalents, ti.WorldClass, "AvgRating",
                       ti.TalentIndex)
  /\ UNCHANGED <<players, sel, pc, shown, xi, faults, reruns, cache, now, order>>

RaiseAvgPotential ==
  /\ \E p \in AvgPotentials :
       /\ p > ti.AvgPotential
       /\ ti' = Figures(ti.AvgRating, p, ti.YoungTalents, ti.WorldClass, "AvgPotential",
                       ti.TalentIndex)
  /\ UNCHANGED <<players, sel, pc, shown, xi, faults, reruns, cache, now, order>>

RaiseYoungTalents ==
  /\ \E y \in 0..MaxCount :
       /\ y > ti.YoungTalents
       /\ ti' = Figures(ti.AvgRating, ti.AvgPotential, y, ti.WorldClass, "YoungTalents",
                       ti.TalentIndex)
  /\ UNCHANGED <<players, sel, pc, shown, xi, faults, reruns, cache, now, order>>

RaiseWorldClass ==
  /\ \E w \in 0..MaxCount :
       /\ w > ti.WorldClass
       /\ ti' = Figures(ti.AvgRating, ti.AvgPotential, ti.YoungTalents, w, "WorldClass",
                       ti.TalentIndex)
  /\ UNCHANGED <<players, sel, pc, shown, xi, faults, reruns, cache, now, order>>

NextTalent == RaiseAvgRating \/ RaiseAvgPotential \/ RaiseYoungTalents \/ RaiseWorldClass

SpecTalent == InitTalent /\ [][NextTalent]_vars


(***************************************************************************)
(* load_data with its memo (lines 29-33) under the filter-dependent        *)
(* statements: the KPI row, tab 1, tab 2 and the two skill panels.  The    *)
(* query text is a sequence of tokens: the statement of the unit, then the *)
(* tokens of filter_clause.                                                *)
(***************************************************************************)
TTL == 600

CachedUnits ==
  {"total", "avg_rating", "avg_age", "top_player", "clubs", "rating_dist", "nations",
   "age_dist", "clubs15", "top_players", "skills", "physical"}

\* the f-string of lines 69-73
filter_text(s) ==
  <<"WHERE Overall BETWEEN", s.min_rating, "AND", s.max_rating,
    "AND Age BETWEEN", s.min_age, "AND", s.max_age>>
  \o (IF s.selected_position # All THEN <<"AND Position =", s.selected_position>>
      ELSE <<>>)
  \o (IF s.selected_club # All THEN <<"AND Club =", s.selected_club>> ELSE <<>>)

\* the argument of load_data in unit u: f"SELECT .. FROM players {filter_clause} .."
QueryText(u, s) == <<u>> \o filter_text(s)

\* the value compared with `col` in the WHERE clause w, All when there is none
ClauseOf(w, col) ==
  LET at == {k \in {9, 11} : k < Len(w) /\ w[k] = col}
  IN  IF at # {} THEN w[(CHOOSE k \in at : TRUE) + 1] ELSE All

\* the bounds and values the store reads off the WHERE clause w
ParseWhere(w) ==
  [min_rating |-> w[2], max_rating |-> w[4], min_age |-> w[6], max_age |-> w[8],
   selected_position |-> ClauseOf(w, "AND Position ="),
   selected_club |-> ClauseOf(w, "AND Club =")]

\* what the store returns for the statement of unit u under the filter s, rows of
\* equal keys in the order o
Result(T, u, s, o) ==
  CASE u = "total"       -> total_count(T, s)
    [] u = "avg_rating"  -> avg_val(T, s, "Overall")
    [] u = "avg_age"     -> avg_val(T, s, "Age")
    [] u = "top_player"  -> top_players(T, s, 1, o)
    [] u = "clubs"       -> clubs_count(T, s)
    [] u = "rating_dist" -> dist(T, s, "Overall")
    [] u = "nations"     -> nations(T, s, o)
    [] u = "age_dist"    -> dist(T, s, "Age")
    [] u = "clubs15"     -> clubs15(T, s, o)
    [] u = "top_players" -> top_players(T, s, TopLimit, o)
    [] u = "skills"      -> skills(T, s, o)
    [] u = "physical"    -> top_players(T, s, SkillLimit, o)

\* pd.read_sql_query(query, conn)
Execute(T, q, o) == Result(T, q[1], ParseWhere(Tail(q)), o)

\* what unit u puts on the page for the frame df that load_data returned
Render(T, u, df) ==
  CASE u \in {"total", "avg_rating", "avg_age", "clubs"} -> Metric(df)
    [] u = "top_player" ->
         IF df # <<>>
         THEN [k |-> "metric", v |-> T[df[1]].Name, delta |-> T[df[1]].Overall]
         ELSE [k |-> "metric", v |-> NA, delta |-> 0]
    [] u = "top_players" -> Table(df)
    [] OTHER -> Chart(df)

\* Key with the statement alone, its WHERE clause left out
KeyStatement(q) == <<q[1]>>

\* the key of the call load_data(q) in the memo: the argument
Key(q) == q

\* the entry under key k is in the memo and younger than ttl
Valid(c, k, t) == k \in DOMAIN c /\ t < c[k].at + TTL

Put(c, k, df, t) ==
  [x \in DOMAIN c \cup {k} |-> IF x = k THEN [df |-> df, at |-> t] ELSE c[x]]

\* the next filter-dependent unit at or after u, or the end of the script
Resume(u) ==
  LET k == CHOOSE j \in DOMAIN Units :
             /\ Units[j] \in CachedUnits \cup {"done"}
             /\ j >= (CHOOSE i \in DOMAIN Units : Units[i] = u)
             /\ \A i \in DOMAIN Units :
                  (Units[i] \in CachedUnits \cup {"done"}
                   /\ i >= (CHOOSE h \in DOMAIN Units : Units[h] = u)) => j <= i
  IN  Units[k]

\* The script goes on to the next filter-dependent unit.  The units passed over
\* (tab 3, tab 4, the position comparison, the search and the deep dive) call
\* load_data with other texts, and tab 3 and tab 4 catch what they raise.
Show(u, d) ==
  /\ shown' = [shown EXCEPT ![u] = d]
  /\ pc' = Resume(After(u))
  /\ UNCHANGED <<players, sel, xi, faults, reruns, ti, now, order>>

\* load_data returns the memoized frame
CacheHit ==
  \E u \in CachedUnits :
    /\ pc = u
    /\ Valid(cache, Key(QueryText(u, sel)), now)
    /\ Show(u, Render(players, u, cache[Key(QueryText(u, sel))].df))
    /\ UNCHANGED cache

\* load_data runs the query and memoizes the frame
CacheMiss ==
  \E u \in CachedUnits :
    LET q  == QueryText(u, sel)
        df == Execute(players, q, order)
    IN  /\ pc = u
        /\ ~Valid(cache, Key(q), now)
        /\ cache' = Put(cache, Key(q), df, now)
        /\ Show(u, Render(players, u, df))

\* load_data runs the query and it raises: nothing is memoized.  The store fails
\* in the first run of the session; the later runs find the memo it left.
CacheRaise ==
  \E u \in CachedUnits :
    /\ reruns = 0
    /\ ~Valid(cache, Key(QueryText(u, sel)), now)
    /\ Raise(u, u)

MaxTicks == 2

\* half a ttl passes between two script runs
Tick ==
  /\ pc \in {"done", "aborted"}
  /\ now < MaxTicks * (TTL \div 2)
  /\ now' = now + TTL \div 2
  /\ UNCHANGED <<players, sel, pc, shown, xi, faults, reruns, ti, cache, order>>

CacheRows ==
  << Row(<<"a">>, 25, NatX, 80, 85, ClubA, ST),
     Row(<<"b">>, 25, NatY, 80, 82, ClubB, ST),
     Row(<<"c">>, 30, NatX, 70, 70, ClubA, GK),
     Row(<<"d">>, 17, NatY, 59, 80, ClubB, CB) >>

\* two tables of MaxRows rows: one with two players of equal Overall, one without
CacheTables == {SubSeq(CacheRows, 1, MaxRows), SubSeq(CacheRows, 2, MaxRows + 1)}

InitCache ==
  \E T \in CacheTables, o \in TieOrders : Begin(T, DefaultSel(T), "options", o)

NextCache ==
  Options \/ CacheHit \/ CacheMiss \/ CacheRaise \/ Tick
  \/ PositionChange \/ SearchTermChange

SpecCache == InitCache /\ [][NextCache]_vars


(***************************************************************************)
(* The claims.                                                             *)
(***************************************************************************)
\* the rows the current filter selection matches, stated from the widget values
Matching ==
  {i \in DOMAIN players :
     /\ sel.min_rating <= players[i].Overall
     /\ players[i].Overall <= sel.max_rating
     /\ sel.min_age <= players[i].Age
     /\ players[i].Age <= sel.max_age
     /\ (sel.selected_position = All \/ players[i].Position = sel.selected_position)
     /\ (sel.selected_club = All \/ players[i].Club = sel.selected_club)}

\* C1: whenever the Total Players KPI is rendered, it is the number of rows whose
\* Overall and Age lie in the selected ranges (bounds included) and whose Position
\* and Club equal the selected ones, 'All' putting no constraint on its dimension.
C1_TotalPlayers ==
  shown["total"].k = "metric" => shown["total"].v = Cardinality(Matching)

\* C1 witness: a club is selected, a row sits exactly on the lower rating bound and
\* is counted, and another row of the table is left out.
C1_Witness ==
  /\ shown["total"].k = "metric"
  /\ sel.selected_club # All
  /\ shown["total"].v >= 1
  /\ shown["total"].v < Len(players)
  /\ \E i \in Matching : players[i].Overall = sel.min_rating

SlotCandidates(s) == {i \in DOMAIN players : players[i].Position \in SlotPositions(s)}

IsMaximum(r, c) ==
  /\ Len(r) = 1
  /\ r[1] \in c
  /\ \A j \in c : players[j].Overall <= players[r[1]].Overall

C3_HiddenGems ==
  shown["gems"].k = "table" =>
    LET g == shown["gems"].rows
    IN  /\ \A p \in DOMAIN g :
             /\ players[g[p]].Potential - players[g[p]].Overall >= 15
             /\ players[g[p]].Age <= 24
        /\ \A p, q \in DOMAIN g :
             p < q => players[g[p]].Potential - players[g[p]].Overall
                        >= players[g[q]].Potential - players[g[q]].Overall

\* C3 witness: two gems of different growth are listed while the table also holds
\* a player of 25 with growth of at least 15, who is left out.
C3_Witness ==
  /\ shown["gems"].k = "table"
  /\ Len(shown["gems"].rows) = 2
  /\ players[shown["gems"].rows[1]].Potential - players[shown["gems"].rows[1]].Overall
       > players[shown["gems"].rows[2]].Potential - players[shown["gems"].rows[2]].Overall
  /\ \E i \in DOMAIN players :
       players[i].Age = 25 /\ players[i].Potential - players[i].Overall >= 15

\* C4: raising one of AvgRating, AvgPotential, YoungTalents, WorldClass with the
\* other three held fixed never lowers the TalentIndex.
C4_Monotone == ti.raised # "none" => ti.TalentIndex >= ti.before

\* C4 witness: WorldClass was raised and the TalentIndex rose.
C4_Witness == ti.raised = "WorldClass" /\ ti.TalentIndex > ti.before

PlayersOf(c) == {i \in DOMAIN players : players[i].Club = c}

Ranked == {shown["club_talent"].rows[p].Club : p \in DOMAIN shown["club_talent"].rows}

\* C5: every club of the ranking, of the Talent Metrics table and of the squad-depth
\* top-5 list has at least 15 players in the table.
C5_MinSquad ==
  /\ shown["club_talent"].k = "ranking" =>
       /\ \A c \in Ranked : Cardinality(PlayersOf(c)) >= 15
       /\ \A p \in DOMAIN shown["club_talent"].chart :
            Cardinality(PlayersOf(shown["club_talent"].chart[p].Club)) >= 15
       /\ \A p \in DOMAIN shown["club_talent"].top_club :
            Cardinality(PlayersOf(shown["club_talent"].top_club[p].Club)) >= 15
  /\ shown["depth"].k = "bars" =>
       \A p \in DOMAIN shown["depth"].depth_clubs :
         Cardinality(PlayersOf(shown["depth"].depth_clubs[p])) >= 15

\* C5 witness: the ranking and the squad-depth chart are rendered for a table that
\* also holds a club of 14 players, which is not ranked.
C5_Witness ==
  /\ shown["club_talent"].k = "ranking"
  /\ shown["depth"].k = "bars"
  /\ Len(shown["depth"].depth_clubs) >= 1
  /\ \E i \in DOMAIN players :
       /\ Cardinality(PlayersOf(players[i].Club)) = 14
       /\ players[i].Club \notin Ranked


\* a panel the script has reason to render in this run: the search result needs a
\* search term, the squad-depth chart a ranking
Scheduled(u) ==
  /\ u = "results" => sel.search_term # Empty
  /\ u = "depth" => shown["club_talent"].k = "ranking"

\* C6 as stated: when the run has ended, a panel (a KPI metric, a chart, a table)
\* whose query raised has kept no other scheduled panel from being rendered.
C6_Contained ==
  pc \in {"done", "aborted"} =>
    \A P \in Panels \ {"options"} :
      shown[P] = Failed =>
        \A Q \in Panels \ {P} : Scheduled(Q) => shown[Q] # NotRun

Nationalities == {players[i].Nationality : i \in Matching}

CountOf(n) == Cardinality({i \in Matching : players[i].Nationality = n})

\* C7: the Top 15 Nationalities chart has at most 15 rows, each a different
\* nationality of the matching rows with its number of matching rows, in
\* non-increasing order of that number; a nationality left out has no more matching
\* rows than any nationality shown.
C7_TopNationalities ==
  shown["nations"].k = "chart" =>
    LET n == shown["nations"].rows
    IN  /\ Len(n) <= 15
        /\ \A p \in DOMAIN n :
             n[p].value \in Nationalities /\ n[p].count = CountOf(n[p].value)
        /\ \A p, q \in DOMAIN n :
             p < q => n[p].value # n[q].value /\ n[p].count >= n[q].count
        /\ \A v \in Nationalities \ {n[p].value : p \in DOMAIN n} :
             /\ Len(n) = 15
             /\ \A p \in DOMAIN n : CountOf(v) <= n[p].count

\* C7 witness: 15 nationalities are shown, not all with the same count, one
\* matching nationality is left out, and one row of the table is filtered away.
C7_Witness ==
  /\ shown["nations"].k = "chart"
  /\ Len(shown["nations"].rows) = 15
  /\ shown["nations"].rows[1].count > shown["nations"].rows[15].count
  /\ Cardinality(Nationalities) > 15
  /\ Cardinality(Matching) < Len(players)

\* term occurs in text as a run of consecutive characters, letters compared
\* without regard to case
Contains(text, term) ==
  \E k \in 0..(Len(text) - Len(term)) :
    \A j \in 1..Len(term) : Fold(text[k + j]) = Fold(term[j])

\* C8 as stated: the search result holds only rows whose chosen field contains the
\* term as a substring (here even read without regard to case), at most 100 rows,
\* in non-increasing order of Overall, and no row left out that matches is rated
\* above a row returned.
C8_Search ==
  shown["results"].k = "table" =>
    LET r == shown["results"].rows
    IN  /\ \A p \in DOMAIN r : Contains(players[r[p]][sel.search_type], sel.search_term)
        /\ Len(r) <= 100
        /\ \A p, q \in DOMAIN r : p < q => players[r[p]].Overall >= players[r[q]].Overall
        /\ \A i \in DOMAIN players \ Range(r) :
             Contains(players[i][sel.search_type], sel.search_term) =>
               /\ Len(r) = 100
               /\ \A p \in DOMAIN r : players[i].Overall <= players[r[p]].Overall

\* C9 as stated: with no matching row and no failing query, the KPI row shows 0, 0,
\* 0, 'N/A' and 0, no panel fails, and no panel renders a chart or a table of an
\* empty result where a placeholder is due.
C9_EmptyResult ==
  (Matching = {} /\ faults = 0) =>
    /\ shown["total"].k = "metric" => shown["total"].v = 0
    /\ shown["avg_rating"].k = "metric" => shown["avg_rating"].v = 0
    /\ shown["avg_age"].k = "metric" => shown["avg_age"].v = 0
    /\ shown["top_player"].k = "metric" => shown["top_player"].v = NA
    /\ shown["clubs"].k = "metric" => shown["clubs"].v = 0
    /\ \A u \in Panels :
         /\ shown[u] # Failed
         /\ shown[u].k \in {"chart", "table"} => Len(shown[u].rows) > 0

QualifyingClubs ==
  {c \in {players[i].Club : i \in DOMAIN players} :
     c # Empty /\ c # Hoffenheim /\ Cardinality(PlayersOf(c)) >= 15}

AvgRatingOf(c) == AvgOf(players, PlayersOf(c), "Overall", 100)

TalentIndexOf(c) ==
  TalentIndex(AvgRatingOf(c), AvgOf(players, PlayersOf(c), "Potential", 100),
              Cardinality({i \in PlayersOf(c) : players[i].Age <= 23}),
              Cardinality({i \in PlayersOf(c) : players[i].Overall >= 80}))

\* C10: the ranking holds at most 30 clubs, all qualifying, each with the
\* TalentIndex of its figures, in non-increasing TalentIndex order; a qualifying
\* club is absent only when 30 clubs are shown, and then its AvgRating is no
\* higher than that of any club shown.
C10_Ranking ==
  shown["club_talent"].k = "ranking" =>
    LET ct == shown["club_talent"].rows
    IN  /\ Len(ct) <= 30
        /\ Ranked \subseteq QualifyingClubs
        /\ \A p \in DOMAIN ct :
             /\ ct[p].AvgRating = AvgRatingOf(ct[p].Club)
             /\ ct[p].TalentIndex = TalentIndexOf(ct[p].Club)
        /\ \A p, q \in DOMAIN ct :
             p < q => ct[p].Club # ct[q].Club /\ ct[p].TalentIndex >= ct[q].TalentIndex
        /\ \A c \in QualifyingClubs \ Ranked :
             /\ Len(ct) = 30
             /\ \A p \in DOMAIN ct : AvgRatingOf(c) <= ct[p].AvgRating

\* C10 witness: 30 clubs are ranked and a qualifying club is absent although its
\* TalentIndex is above that of a club shown.
C10_Witness ==
  /\ shown["club_talent"].k = "ranking"
  /\ Len(shown["club_talent"].rows) = 30
  /\ \E c \in QualifyingClubs \ Ranked :
       TalentIndexOf(c) > shown["club_talent"].rows[30].TalentIndex

(***************************************************************************)
(* C11: no deduplication across the Best XI slots.                         *)
(***************************************************************************)
\* the slots whose statement has no OFFSET
FirstRankSlots == {s \in Range(Slots) : SlotOffset(s) = 0}

\* row i is rated above every other player of the position sets of s and t
TopOfBoth(i, s, t) ==
  /\ i \in SlotCandidates(s) \cap SlotCandidates(t)
  /\ \A j \in (SlotCandidates(s) \cup SlotCandidates(t)) \ {i} :
       players[j].Overall < players[i].Overall

Filled(x) == {s \in Range(Slots) : x[s] # <<>>}

EntryKey(u) == Key(QueryText(u, sel))

\* C12: every filter-dependent result on the page is what the store returns for the
\* current filter selection, and so is every memo entry, expired or not, that a
\* filter-dependent unit looks up under the current selection.
C12_CacheConsistent ==
  \A u \in CachedUnits :
    /\ \/ shown[u].k \in {"none", "error"}
       \/ shown[u] = Render(players, u, Result(players, u, sel, order))
    /\ EntryKey(u) \in DOMAIN cache
         => cache[EntryKey(u)].df = Result(players, u, sel, order)

\* C12 witness: in a rerun half a ttl after the first run, the top player is served
\* from the memo; two players share the top rating and the store returns the later
\* row first.
C12_Witness ==
  /\ reruns >= 1
  /\ pc = "rating_dist"
  /\ shown["top_player"].k = "metric"
  /\ EntryKey("top_player") \in DOMAIN cache
  /\ cache[EntryKey("top_player")].at < now
  /\ now < cache[EntryKey("top_player")].at + TTL
  /\ order = "desc"
  /\ \E i \in Filtered(players, sel), j \in Filtered(players, sel) :
       /\ i < j
       /\ players[i].Overall = players[j].Overall
       /\ cache[EntryKey("top_player")].df = <<j>>
       /\ shown["top_player"].v = players[j].Name

====
